---- MODULE Spec2Model ----
(***************************************************************************)
(* A model of src/sim/SPH3d.h: the uniform grid (pbs::sph3d::Grid) and the *)
(* weakly compressible SPH solver (pbs::sph3d::SPH).                        *)
(*                                                                         *)
(* Units.  The floats of the code are fixed-point numbers here.  A length  *)
(* is a whole number of nudges (the offset 1e-5 that computeForces adds to *)
(* a coincident particle), scaled so that the order of the code's lengths  *)
(* is kept: nudge = 1 < rest spacing = 2 < support radius h = 4, and the    *)
(* squared length of a nudge, 3, is below the threshold 0.00001 of the     *)
(* force pass, which is below the squared rest spacing, 4.  Time is        *)
(* counted in steps dt, a velocity is a length per step.  Vectors are      *)
(* triples <<x, y, z>>; arrays are functions over 0 .. N-1, as the         *)
(* std::vectors of the code are.  Float division is division truncated     *)
(* toward zero (TDiv), so that it commutes with negation as float          *)
(* arithmetic does.                                                        *)
(***************************************************************************)
EXTENDS Integers, Sequences, FiniteSets, TLC

\* ------------------------------------------------------------- bounds
\* Largest number of particles drawn by InitGrid.
MaxN == 3
\* Largest number of particles drawn by InitLookup.
MaxLookupN == 2
\* The largest number of particles of a behaviour of SpecSort.
MaxSortN == 4
\* The number of update() calls of a behaviour of Spec.
MaxSteps == 2

\* ------------------------------------------------- program constants
\* _restSpacing
RestSpacing == 2
\* _h = _restSpacing * 2.f
H == 4

\* scene.world.bounds, the domain box
BoundsMin == <<0, 0, 0>>
BoundsMax == <<4, 4, 2>>

\* ------------------------------------------------------ vector algebra
VAdd(a, b) == <<a[1] + b[1], a[2] + b[2], a[3] + b[3]>>
VSub(a, b) == <<a[1] - b[1], a[2] - b[2], a[3] - b[3]>>
VScale(s, a) == <<s * a[1], s * a[2], s * a[3]>>
Dot(a, b) == a[1] * b[1] + a[2] * b[2] + a[3] * b[3]
SquaredNorm(a) == Dot(a, a)
\* Vector3f(value): all three components equal
Vector3(v) == <<v, v, v>>
Max2(a, b) == IF a >= b THEN a ELSE b
Min2(a, b) == IF a <= b THEN a ELSE b
CwiseMax(a, b) == <<Max2(a[1], b[1]), Max2(a[2], b[2]), Max2(a[3], b[3])>>
CwiseMin(a, b) == <<Min2(a[1], b[1]), Min2(a[2], b[2]), Min2(a[3], b[3])>>
Prod(a) == a[1] * a[2] * a[3]
VNeg(a) == <<-a[1], -a[2], -a[3]>>
\* a / b as floats divide: the sign apart, rounded toward zero (b > 0)
\* (no division of the code has a zero divisor: a density holds the particle's
\* own kernel weight, a norm passed the threshold; x / 0 is put to 0)
TDiv(a, b) ==
    IF b = 0 THEN 0 ELSE IF a >= 0 THEN a \div b ELSE -((-a) \div b)
VDiv(a, b) == <<TDiv(a[1], b), TDiv(a[2], b), TDiv(a[3], b)>>
sqr(x) == x * x
cube(x) == x * x * x

\* The points of the closed box [lo, hi].
BoxPoints(lo, hi) == (lo[1] .. hi[1]) \X (lo[2] .. hi[2]) \X (lo[3] .. hi[3])

\* std::swap(a[i], a[j])
SwapAt(a, i, j) == [a EXCEPT ![i] = a[j], ![j] = a[i]]

\* The sequence a, a+1, .., b (empty when b < a): the values a for-loop takes.
Range(a, b) == [k \in 1 .. (b - a + 1) |-> a + k - 1]

RECURSIVE Flatten(_)
Flatten(ss) == IF ss = <<>> THEN <<>> ELSE Head(ss) \o Flatten(Tail(ss))

SeqToSet(s) == {s[k] : k \in DOMAIN s}

\* --------------------------------------------------------------- state
VARIABLES
    pc,            \* where the solver is: "noSolver" (not constructed), "idle"
                   \* (between two calls), "grid", "density", "normals", "forces",
                   \* "integrate", "collision" (the stage of update() that runs),
                   \* "crashed" (an access outside a vector ended the process)
    particleMass,  \* _particleMass
    gravity,       \* _settings.gravity
    time,          \* _t, in steps
    dt,            \* the argument of the running update(dt)
    scene,         \* the scene the solver was constructed from
    atEntry,       \* history: the six particle arrays, the gravity, the time and
                   \* _cellOffset when update() was entered
    written,       \* history: the slots <<array, i>> written since update() was entered
    firstRun,      \* history: the state the first of two runs of an update() ended in
    atForces,      \* history: the positions when the force pass was entered
    done,          \* the tasks of the running parallel stage that have returned
    ftask,         \* the running tasks of the force pass: their locals
    colI,          \* the loop variable of computeCollisions
    positions, velocities, normals, forces, densities, pressures,
    cellOffset,    \* Grid::_cellOffset
    indices,       \* Grid::update local: the cell index of the particle in each slot
    cellIndex,     \* Grid::update local: the per-cell cursor
    sortI,         \* Grid::update local: the loop variable i of the sort loop
    lookupPos, lookupRadius,   \* the arguments of the last Grid::lookup
    lookupCells,   \* the cells <<x, y, z>> the last lookup visited, in order
    lookupVisited, \* the slots the last lookup passed to func, in order
    neighbours,    \* the slots the last iterateNeighbours passed to func
    lastCall       \* the last query made of the grid: "none", "lookup", "iterateNeighbours"

gridVars == <<cellOffset, indices, cellIndex, sortI>>
lookupVars == <<lookupPos, lookupRadius, lookupCells, lookupVisited, neighbours, lastCall>>
particleVars == <<positions, velocities, normals, forces, densities, pressures>>
solverVars ==
    <<particleMass, gravity, time, dt, scene, atEntry, written, firstRun, atForces>>
stageVars == <<done, ftask, colI>>
vars == <<pc, solverVars, stageVars, particleVars, gridVars, lookupVars>>

\* _positions.size()
N == Cardinality(DOMAIN positions)

\* ------------------------------------------------------------ Grid
\* nextPowerOfTwo of core/Common.h: the least power of two >= n.
RECURSIVE PowerOfTwoFrom(_, _)
PowerOfTwoFrom(p, n) == IF p >= n THEN p ELSE PowerOfTwoFrom(2 * p, n)
nextPowerOfTwo(n) == PowerOfTwoFrom(1, n)

\* Grid::_cellSize after init(_bounds, _h)
CellSize == H
\* _bounds.extents()
Extents == VSub(BoundsMax, BoundsMin)
\* Grid::_size
Size ==
    << nextPowerOfTwo((Extents[1] \div CellSize) + 1),
       nextPowerOfTwo((Extents[2] \div CellSize) + 1),
       nextPowerOfTwo((Extents[3] \div CellSize) + 1) >>
\* _size.prod()
CellTotal == Prod(Size)

\* Grid::index: floor((pos - _bounds.min) * _invCellSize) per axis
index(pos) ==
    << (pos[1] - BoundsMin[1]) \div CellSize,
       (pos[2] - BoundsMin[2]) \div CellSize,
       (pos[3] - BoundsMin[3]) \div CellSize >>

\* the linear index of cell <<x, y, z>>
CellLinear(c) == c[3] * (Size[1] * Size[2]) + c[2] * Size[1] + c[1]

\* Grid::indexLinear
indexLinear(pos) == CellLinear(index(pos))

\* A cell coordinate triple inside the grid.
CellInGrid(c) == \A a \in 1 .. 3 : 0 <= c[a] /\ c[a] <= Size[a] - 1

\* Grid::update, first loop: the number of particles per cell.
CountCells(pos) ==
    [c \in 0 .. CellTotal - 1 |->
        Cardinality({i \in DOMAIN pos : indexLinear(pos[i]) = c})]

\* Grid::update, second loop: the running sum of cellCount before cell c
\* (c = CellTotal gives _cellOffset.back()).
RECURSIVE PrefixSum(_, _)
PrefixSum(cnt, c) == IF c = 0 THEN 0 ELSE PrefixSum(cnt, c - 1) + cnt[c - 1]

MutOffsetsNoSentinel(cnt) ==
    [c \in 0 .. CellTotal |-> IF c = CellTotal THEN 0 ELSE PrefixSum(cnt, c)]
Offsets(cnt) == [c \in 0 .. CellTotal |-> PrefixSum(cnt, c)]

\* The condition of the inner while loop of the sort.
Misplaced(i) == i >= cellIndex[indices[i]] \/ i < cellOffset[indices[i]]

\* The swap callback update() passes to Grid::update.
MutSwapPositionsOnly(i, j) ==
    /\ positions' = SwapAt(positions, i, j)
    /\ velocities' = velocities
MutSwapCopiesVelocity(i, j) ==
    /\ positions' = SwapAt(positions, i, j)
    /\ velocities' = [velocities EXCEPT ![i] = velocities[j]]
SwapCallback(i, j) ==
    /\ positions' = SwapAt(positions, i, j)
    /\ velocities' = SwapAt(velocities, i, j)

\* Every particle's cell index is an index of cellCount.  (The code narrows
\* the index to uint32_t: a negative one becomes 2^32 - k, outside as well.)
IndicesInRange(pos) ==
    \A i \in DOMAIN pos : indexLinear(pos[i]) \in 0 .. CellTotal - 1

\* Grid::update up to the sort loop: indices, counts, offsets, cursors.
GridUpdateBegin ==
    /\ indices' = [i \in DOMAIN positions |-> indexLinear(positions[i])]
    /\ cellOffset' = Offsets(CountCells(positions))
    /\ cellIndex' = [c \in 0 .. CellTotal - 1 |-> Offsets(CountCells(positions))[c]]
    /\ sortI' = 0

\* One iteration of the inner while loop: move the particle of slot i to the
\* cursor of its cell.
MutSortSwapKeepsCursor ==
    /\ pc = "grid"
    /\ sortI < N
    /\ Misplaced(sortI)
    /\ LET c == indices[sortI]
           j == cellIndex[c]
       IN /\ cellIndex' = cellIndex
          /\ indices' = SwapAt(indices, sortI, j)
          /\ SwapCallback(sortI, j)
    /\ UNCHANGED <<pc, solverVars, stageVars, normals, forces, densities, pressures,
                   stageVars, particleVars, gridVars, lookupVars>>
SortSwap ==
    /\ pc = "grid"
    /\ sortI < N
    /\ Misplaced(sortI)
    /\ LET c == indices[sortI]
           j == cellIndex[c]
       IN /\ cellIndex' = [cellIndex EXCEPT ![c] = j + 1]
          /\ indices' = SwapAt(indices, sortI, j)
          /\ SwapCallback(sortI, j)
    /\ UNCHANGED <<pc, solverVars, stageVars, normals, forces, densities, pressures,
                   cellOffset, sortI, lookupVars>>

\* The inner loop's condition is false: ++i.
SortAdvance ==
    /\ pc = "grid"
    /\ sortI < N
    /\ ~Misplaced(sortI)
    /\ sortI' = sortI + 1
    /\ UNCHANGED <<pc, solverVars, stageVars, particleVars, cellOffset, indices,
                   cellIndex, lookupVars>>

\* Grid::update has returned.
GridBuilt == pc = "grid" /\ sortI = N

\* Grid::lookup: the clamped cell range.
MutLookupMinUnclamped(pos, radius) == index(VSub(pos, Vector3(radius)))
LookupMin(pos, radius) == CwiseMax(index(VSub(pos, Vector3(radius))), Vector3(0))
MutLookupMaxNoRadius(pos, radius) == CwiseMin(index(pos), VSub(Size, Vector3(1)))
LookupMax(pos, radius) ==
    CwiseMin(index(VAdd(pos, Vector3(radius))), VSub(Size, Vector3(1)))

\* The cells the three nested loops of Grid::lookup visit, in order.
LookupCellSeq(pos, radius) ==
    LET lo == LookupMin(pos, radius)
        hi == LookupMax(pos, radius)
        xs == Range(lo[1], hi[1])
        ys == Range(lo[2], hi[2])
        zs == Range(lo[3], hi[3])
    IN Flatten([zi \in DOMAIN zs |->
          Flatten([yi \in DOMAIN ys |->
              [xi \in DOMAIN xs |-> <<xs[xi], ys[yi], zs[zi]>>]])])

\* The innermost loop: j from _cellOffset[i] to _cellOffset[i + 1] - 1.
CellSlots(i) == Range(cellOffset[i], cellOffset[i + 1] - 1)

\* The slots Grid::lookup passes to func, in order.
Lookup(pos, radius) ==
    LET cells == LookupCellSeq(pos, radius)
    IN Flatten([k \in DOMAIN cells |-> CellSlots(CellLinear(cells[k]))])

\* SPH::iterateNeighbours: the slots of the lookup that pass r2 < _h2.
h2 == sqr(H)
PassesFilter(p, j) == SquaredNorm(VSub(p, positions[j])) < h2
IterateNeighbours(p) == SelectSeq(Lookup(p, H), LAMBDA j : PassesFilter(p, j))

\* A call of Grid::lookup(pos, radius, func) on the built grid.  A cell outside
\* the grid would make _cellOffset[i] an access outside the vector.  A query
\* leaves the grid as it is, so a behaviour makes one.
CellsInGrid(cells) == \A k \in DOMAIN cells : CellInGrid(cells[k])

GridLookup(pos, radius) ==
    /\ lookupPos' = pos
    /\ lookupRadius' = radius
    /\ lastCall' = "lookup"
    /\ LET cells == LookupCellSeq(pos, radius)
       IN /\ lookupCells' = cells
          /\ IF CellsInGrid(cells)
             THEN /\ lookupVisited' =
                        Flatten([k \in DOMAIN cells |-> CellSlots(CellLinear(cells[k]))])
                  /\ pc' = pc
             ELSE /\ lookupVisited' = <<>>
                  /\ pc' = "crashed"
    /\ UNCHANGED <<solverVars, stageVars, particleVars, gridVars, neighbours>>

\* A call of SPH::iterateNeighbours(p, func).
NeighbourQuery(p) ==
    /\ lookupPos' = p
    /\ lookupRadius' = H
    /\ lastCall' = "iterateNeighbours"
    /\ LET cells == LookupCellSeq(p, H)
       IN /\ lookupCells' = cells
          /\ IF CellsInGrid(cells)
             THEN /\ lookupVisited' = Lookup(p, H)
                  /\ neighbours' = IterateNeighbours(p)
                  /\ pc' = pc
             ELSE /\ lookupVisited' = <<>>
                  /\ neighbours' = <<>>
                  /\ pc' = "crashed"
    /\ UNCHANGED <<solverVars, stageVars, particleVars, gridVars>>

\* ------------------------------------------------------------ kernels
\* _restDensity and _particlesPerUnitVolume, as the scene sets them
RestDensity == 100
ParticlesPerUnitVolume == 100
\* wcsph.cs and wcsph.gamma
WcsCs == 10
WcsGamma == 7
\* 1 / poly6Constant
Poly6Norm == 64
\* the numerator of spikyGradConstant = -45 / (pi h^6)
SpikyGradNum == 45
\* the threshold of the force pass: r2 > 0.00001f
R2Min == 3
\* the offset added to a coincident particle: Vector3f(1e-5f)
Nudge == 1

\* Settings::gravity as constructed and as update() sets it, and the three
\* other directions update() goes through: 9.81 is one length per step^2.
GravityDown == <<0, -1, 0>>
GravityRight == <<1, 0, 0>>
GravityUp == <<0, 1, 0>>
GravityLeft == <<-1, 0, 0>>

\* Vector3f(): the vector a declaration without arguments constructs.
Vector3Default == Vector3(0)

\* wcsph.B = _restDensity * sqr(wcsph.cs) / wcsph.gamma
WcsB == TDiv(RestDensity * sqr(WcsCs), WcsGamma)

\* Kernel::poly6
poly6(r2) == cube(h2 - r2)
\* Kernel::poly6Grad
poly6Grad(r, r2) == VScale(sqr(h2 - r2), r)

\* std::sqrt(r2) in quarters of a length
rn4(r2) == CHOOSE k \in 0 .. 4 * H : sqr(k) <= 16 * r2 /\ 16 * r2 < sqr(k + 1)
\* Kernel::h and Kernel::halfh in quarters of a length
h4 == 4 * H
halfh4 == 2 * H
\* Kernel::spikyGrad: sqr(h - rn) * r * (1 / rn)
spikyGrad(r, rn) == VDiv(VScale(sqr(h4 - rn), r), rn)
\* Kernel::viscosityLaplace
viscosityLaplace(rn) == h4 - rn
\* Kernel::surfaceTensionOffset = -h^6 / 64
surfaceTensionOffset == -TDiv(cube(h4) * cube(h4), 64 * 1024)
\* Kernel::surfaceTension
surfaceTension(rn) ==
    IF rn < halfh4
    THEN 2 * TDiv(cube(h4 - rn) * cube(rn), 1024) + surfaceTensionOffset
    ELSE TDiv(cube(h4 - rn) * cube(rn), 1024)

\* ------------------------------------------------------- construction
\* A scene: the boxes <<min, max>> and the spheres <<position, radius>> to fill.
\* std::ceil and std::floor of a coordinate over the rest spacing.
CeilDiv(a, b) == -((-a) \div b)
FloorDiv(a, b) == a \div b

\* the lattice points of [lo, hi] (in rest spacings) in the order of the three
\* nested loops: z outermost, x innermost
LatticeLoop(lo, hi) ==
    LET xs == Range(lo[1], hi[1])
        ys == Range(lo[2], hi[2])
        zs == Range(lo[3], hi[3])
    IN Flatten([zi \in DOMAIN zs |->
          Flatten([yi \in DOMAIN ys |->
              [xi \in DOMAIN xs |->
                  VScale(RestSpacing, <<xs[xi], ys[yi], zs[zi]>>)]])])

\* SPH::voxelizeBox: the positions it appends
voxelizeBox(box) ==
    LatticeLoop(
        <<CeilDiv(box[1][1], RestSpacing), CeilDiv(box[1][2], RestSpacing),
          CeilDiv(box[1][3], RestSpacing)>>,
        <<FloorDiv(box[2][1], RestSpacing), FloorDiv(box[2][2], RestSpacing),
          FloorDiv(box[2][3], RestSpacing)>>)

\* SPH::voxelizeSphere: the positions it appends
voxelizeSphere(pos, radius) ==
    SelectSeq(
        LatticeLoop(
            <<CeilDiv(pos[1] - radius, RestSpacing), CeilDiv(pos[2] - radius, RestSpacing),
              CeilDiv(pos[3] - radius, RestSpacing)>>,
            <<FloorDiv(pos[1] + radius, RestSpacing), FloorDiv(pos[2] + radius, RestSpacing),
              FloorDiv(pos[3] + radius, RestSpacing)>>),
        LAMBDA p : SquaredNorm(VSub(p, pos)) <= sqr(radius))

\* the constructor's two loops over scene.boxes and scene.spheres
Voxelize(scn) ==
    Flatten([b \in DOMAIN scn.boxes |-> voxelizeBox(scn.boxes[b])])
    \o Flatten([s \in DOMAIN scn.spheres |->
                  voxelizeSphere(scn.spheres[s][1], scn.spheres[s][2])])

\* a std::vector holding the elements of sequence s in slots 0 .. Len(s) - 1
ToVector(s) == [i \in 0 .. Len(s) - 1 |-> s[i + 1]]

\* v.resize(n) of an empty vector: n value-initialized elements
MutResizeOneShort(n, value) == [i \in 0 .. n - 2 |-> value]
Resized(n, value) == [i \in 0 .. n - 1 |-> value]

\* SPH::SPH(scene)
Construct(scn) ==
    /\ pc = "noSolver"
    /\ pc' = "idle"
    /\ particleMass' = TDiv(RestDensity, ParticlesPerUnitVolume)
    /\ gravity' = GravityDown
    /\ time' = 0
    /\ positions' = ToVector(Voxelize(scn))
    /\ velocities' = Resized(Len(Voxelize(scn)), Vector3Default)
    /\ normals' = Resized(Len(Voxelize(scn)), Vector3Default)
    /\ forces' = Resized(Len(Voxelize(scn)), Vector3Default)
    /\ densities' = Resized(Len(Voxelize(scn)), 0)
    /\ pressures' = Resized(Len(Voxelize(scn)), 0)
    /\ cellOffset' = Resized(CellTotal + 1, 0)
    /\ scene' = scn
    /\ written' = {}
    /\ UNCHANGED <<dt, atEntry, firstRun, atForces, stageVars, indices, cellIndex, sortI, lookupVars>>

\* The caller writes settings().gravity between two steps.
SetGravity(g) ==
    /\ pc = "idle"
    /\ gravity # g
    /\ gravity' = g
    /\ UNCHANGED <<pc, particleMass, time, dt, scene, atEntry, written, firstRun, atForces,
                   stageVars, particleVars, gridVars, lookupVars>>

\* ----------------------------------------------------------- update(dt)
\* The gravity update() leaves in _settings: the branch on fmod(_t * 0.5f, 4.f)
\* picks one of four directions by the time, and the assignment after it
\* overwrites it.
GravityByTime(tm) ==
    IF tm % 8 < 2 THEN GravityDown
    ELSE IF tm % 8 < 4 THEN GravityRight
    ELSE IF tm % 8 < 6 THEN GravityUp
    ELSE GravityLeft
GravityOfUpdate(tm) ==
    LET byTime == GravityByTime(tm)
    IN GravityDown

\* update(d) from its entry to the sort loop of _grid.update.  A cell index
\* outside cellCount makes ++cellCount[index] a write outside the vector.
UpdateBegin(d, maxSteps) ==
    /\ pc = "idle"
    /\ time < maxSteps
    /\ time' = time + d
    /\ dt' = d
    /\ gravity' = GravityOfUpdate(time + d)
    /\ atEntry' = <<positions, velocities, normals, forces, densities, pressures,
                    gravity, time, cellOffset>>
    /\ written' = {}
    /\ IF IndicesInRange(positions)
       THEN /\ pc' = "grid"
            /\ GridUpdateBegin
       ELSE /\ pc' = "crashed"
            /\ UNCHANGED gridVars
    /\ UNCHANGED <<particleMass, scene, firstRun, atForces, stageVars, particleVars, lookupVars>>

\* The slots of the tasks of a parallel stage.
Tasks == DOMAIN positions

\* computeDensity, the task of particle i
DensityOf(i) ==
    LET nb == IterateNeighbours(positions[i])
        sum[k \in 0 .. Len(nb)] ==
            IF k = 0 THEN 0
            ELSE sum[k - 1] + poly6(SquaredNorm(VSub(positions[i], positions[nb[k]])))
    IN TDiv(particleMass * sum[Len(nb)], Poly6Norm)

\* Tait pressure: wcsph.B * ((t*t)*(t*t)*(t*t)*t - 1.f), t in hundredths
Tait(density) ==
    LET t == TDiv(density * 100, RestDensity)
        tt == TDiv(t * t, 100)
        t4 == TDiv(tt * tt, 100)
        t6 == TDiv(t4 * tt, 100)
        t7 == TDiv(t6 * t, 100)
    IN TDiv(WcsB * (t7 - 100), 100)

\* The stage after the grid rebuild starts once Grid::update has returned.
DensityBegin ==
    /\ pc = "grid"
    /\ sortI = N
    /\ pc' = "density"
    /\ done' = {}
    /\ UNCHANGED <<solverVars, ftask, colI, particleVars, gridVars, lookupVars>>

MutDensityTaskScatter(i) ==
    /\ pc = "density"
    /\ i \in Tasks \ done
    /\ LET nb == IterateNeighbours(positions[i])
           near == {i} \cup {nb[k] : k \in 1 .. Len(nb)}
       IN /\ densities' = [k \in DOMAIN densities |->
                              IF k \in near THEN DensityOf(i) ELSE densities[k]]
          /\ pressures' = [k \in DOMAIN pressures |->
                              IF k \in near THEN Tait(DensityOf(i)) ELSE pressures[k]]
    /\ done' = done \cup {i}
    /\ written' = written \cup {<<"densities", i>>, <<"pressures", i>>}
    /\ UNCHANGED <<pc, particleMass, gravity, time, dt, scene, atEntry, firstRun, atForces, ftask,
                   colI, positions, velocities, normals, forces, gridVars, lookupVars>>
DensityTask(i) ==
    /\ pc = "density"
    /\ i \in Tasks \ done
    /\ densities' = [densities EXCEPT ![i] = DensityOf(i)]
    /\ pressures' = [pressures EXCEPT ![i] = Tait(DensityOf(i))]
    /\ done' = done \cup {i}
    /\ written' = written \cup {<<"densities", i>>, <<"pressures", i>>}
    /\ UNCHANGED <<pc, particleMass, gravity, time, dt, scene, atEntry, firstRun, atForces, ftask,
                   colI, positions, velocities, normals, forces, gridVars, lookupVars>>

\* parallel_for has returned: every task of the stage has.
MutJoinedEarly == TRUE
Joined == done = Tasks

\* computeNormals, the task of particle i
NormalOf(i) ==
    LET nb == IterateNeighbours(positions[i])
        sum[k \in 0 .. Len(nb)] ==
            IF k = 0 THEN Vector3Default
            ELSE LET j == nb[k]
                     r == VSub(positions[i], positions[j])
                 IN VAdd(sum[k - 1],
                         VDiv(VScale(100, poly6Grad(r, SquaredNorm(r))), densities[j]))
    IN VNeg(VDiv(VScale(H * particleMass, sum[Len(nb)]), 400))

NormalsBegin ==
    /\ pc = "density"
    /\ Joined
    /\ pc' = "normals"
    /\ done' = {}
    /\ UNCHANGED <<solverVars, ftask, colI, particleVars, gridVars, lookupVars>>

NormalTask(i) ==
    /\ pc = "normals"
    /\ i \in Tasks \ done
    /\ normals' = [normals EXCEPT ![i] = NormalOf(i)]
    /\ done' = done \cup {i}
    /\ written' = written \cup {<<"normals", i>>}
    /\ UNCHANGED <<pc, particleMass, gravity, time, dt, scene, atEntry, firstRun, atForces, ftask,
                   colI, positions, velocities, forces, densities, pressures, gridVars,
                   lookupVars>>

\* ------------------------------------------------------- computeForces
\* The locals of the task of particle i when it enters _grid.lookup: the
\* candidate slots (the cell range and the offsets are fixed by then), the
\* next candidate, the slot whose nudge is decided and not yet written (<<j>>,
\* or <<>>), and the four accumulators.
NewForceTask(i) ==
    [ cands |-> Lookup(positions[i], H),
      k |-> 1,
      pending |-> <<>>,
      force |-> Vector3(0),
      forceViscosity |-> Vector3Default,
      forceCohesion |-> Vector3Default,
      forceCurvature |-> Vector3Default ]

\* The pair (i, j) passes the filter of the force pass.
ForcePair(r2) == r2 < h2 /\ r2 > R2Min

\* the pressure term: _particleMass2 * (pressure_i / sqr(density_i)
\* + pressure_j / sqr(density_j)) * spikyGradConstant * spikyGrad(r, rn)
MutPressureCoefficientOwn(i, j) ==
    sqr(particleMass) * 2 * TDiv(100 * pressures[i], sqr(densities[i]))
PressureCoefficient(i, j) ==
    sqr(particleMass)
        * (TDiv(100 * pressures[i], sqr(densities[i]))
           + TDiv(100 * pressures[j], sqr(densities[j])))
PressureTerm(i, j, r, rn) ==
    VDiv(VScale(PressureCoefficient(i, j) * (-SpikyGradNum), spikyGrad(r, rn)), 400)

\* (v_i - v_j) * (viscosityLaplace(rn) / density_j)
ViscosityTerm(i, j, rn) ==
    VDiv(VScale(100 * viscosityLaplace(rn), VSub(velocities[i], velocities[j])),
         densities[j])

\* correctionFactor = 2 * _restDensity / (density_i + density_j), in hundredths
CorrectionFactor(i, j) == TDiv(200 * RestDensity, densities[i] + densities[j])
CohesionTerm(i, j, r, rn) ==
    VDiv(VScale(CorrectionFactor(i, j) * surfaceTension(rn), r), 100)
CurvatureTerm(i, j) ==
    VDiv(VScale(CorrectionFactor(i, j), VSub(normals[i], normals[j])), 100)

\* The lambda of computeForces on candidate j: the locals after it.
Accumulated(i, j, task) ==
    LET r == VSub(positions[i], positions[j])
        r2 == SquaredNorm(r)
        rn == rn4(r2)
    IN IF i # j /\ ForcePair(r2)
       THEN [task EXCEPT
               !.k = @ + 1,
               !.force = VSub(@, PressureTerm(i, j, r, rn)),
               !.forceViscosity =
                   IF densities[j] > 0
                   THEN VSub(@, ViscosityTerm(i, j, rn))
                   ELSE @,
               !.forceCohesion = VAdd(@, CohesionTerm(i, j, r, rn)),
               !.forceCurvature = VAdd(@, CurvatureTerm(i, j))]
       ELSE [task EXCEPT !.k = @ + 1]

\* The lambda of computeForces on candidate j: the test r2 == 0.f, and the
\* write it leads to, the nudge of the particle in slot j.
Coincident(i, j) == i # j /\ SquaredNorm(VSub(positions[i], positions[j])) = 0
Nudged(j) == [positions EXCEPT ![j] = VAdd(@, Vector3(Nudge))]

\* The force the task stores: the accumulators scaled by their constants, summed,
\* plus _particleMass * _settings.gravity.
FinalForce(task) ==
    LET viscosity == VDiv(VScale(particleMass, task.forceViscosity), 100)
        cohesion == VDiv(VScale(sqr(particleMass), task.forceCohesion), 64)
        curvature == VScale(particleMass, task.forceCurvature)
    IN VAdd(VDiv(VAdd(task.force, VAdd(cohesion, VAdd(curvature, viscosity))), 100),
            VScale(particleMass, gravity))

Without(f, i) == [k \in DOMAIN f \ {i} |-> f[k]]
With(f, i, v) == [k \in DOMAIN f \cup {i} |-> IF k = i THEN v ELSE f[k]]

ForcesBegin ==
    /\ pc = "normals"
    /\ Joined
    /\ pc' = "forces"
    /\ done' = {}
    /\ atForces' = positions
    /\ UNCHANGED <<particleMass, gravity, time, dt, scene, atEntry, written, firstRun,
                   ftask, colI, particleVars, gridVars, lookupVars>>

\* The task of particle i starts: it reads _positions[i] and enters the lookup.
ForceTaskBegin(i) ==
    /\ pc = "forces"
    /\ i \in Tasks \ (done \cup DOMAIN ftask)
    /\ ftask' = With(ftask, i, NewForceTask(i))
    /\ UNCHANGED <<pc, solverVars, done, colI, particleVars, gridVars, lookupVars>>

\* The task of particle i handles its next candidate: it reads the two
\* positions, accumulates, and decides on the nudge.  The tasks are not
\* synchronised: other tasks run between the test and the write it leads to.
ForceTaskStep(i) ==
    /\ pc = "forces"
    /\ i \in DOMAIN ftask
    /\ ftask[i].pending = <<>>
    /\ ftask[i].k <= Len(ftask[i].cands)
    /\ LET j == ftask[i].cands[ftask[i].k]
       IN ftask' = [ftask EXCEPT ![i] =
                       [Accumulated(i, j, ftask[i]) EXCEPT
                           !.pending = IF Coincident(i, j) THEN <<j>> ELSE <<>>]]
    /\ UNCHANGED <<pc, solverVars, done, colI, particleVars, gridVars, lookupVars>>

\* The task of particle i writes the nudge it decided on:
\* _positions[j] += Vector3f(1e-5f).
ForceTaskNudge(i) ==
    /\ pc = "forces"
    /\ i \in DOMAIN ftask
    /\ ftask[i].pending # <<>>
    /\ positions' = Nudged(ftask[i].pending[1])
    /\ ftask' = [ftask EXCEPT ![i].pending = <<>>]
    /\ UNCHANGED <<pc, solverVars, done, colI, velocities, normals, forces, densities,
                   pressures, gridVars, lookupVars>>

\* The task of particle i has left the lookup: it stores its force.
ForceTaskEnd(i) ==
    /\ pc = "forces"
    /\ i \in DOMAIN ftask
    /\ ftask[i].pending = <<>>
    /\ ftask[i].k > Len(ftask[i].cands)
    /\ forces' = [forces EXCEPT ![i] = FinalForce(ftask[i])]
    /\ ftask' = Without(ftask, i)
    /\ done' = done \cup {i}
    /\ written' = written \cup {<<"forces", i>>}
    /\ UNCHANGED <<pc, particleMass, gravity, time, dt, scene, atEntry, firstRun, atForces, colI,
                   positions, velocities, normals, densities, pressures, gridVars,
                   lookupVars>>

\* ----------------------------------------------------------- Integrate
IntegrateBegin ==
    /\ pc = "forces"
    /\ Joined
    /\ pc' = "integrate"
    /\ done' = {}
    /\ UNCHANGED <<solverVars, ftask, colI, particleVars, gridVars, lookupVars>>

\* a = _forces[i] * invM; _velocities[i] += a * dt; _positions[i] += _velocities[i] * dt
IntegratedVelocity(i) ==
    VAdd(velocities[i], VScale(dt, VDiv(forces[i], particleMass)))
IntegrateTask(i) ==
    /\ pc = "integrate"
    /\ i \in Tasks \ done
    /\ velocities' = [velocities EXCEPT ![i] = IntegratedVelocity(i)]
    /\ positions' = [positions EXCEPT ![i] = VAdd(@, VScale(dt, IntegratedVelocity(i)))]
    /\ done' = done \cup {i}
    /\ UNCHANGED <<pc, solverVars, ftask, colI, normals, forces, densities, pressures,
                   gridVars, lookupVars>>

\* ---------------------------------------------------- Collision Update
\* The six tests of computeCollisions in their order: the axis, the side (1 the
\* min face, -1 the max face); the normal points into the box.
Faces == << <<1, 1>>, <<1, -1>>, <<2, 1>>, <<2, -1>>, <<3, 1>>, <<3, -1>> >>
FaceNormal(f) == [a \in 1 .. 3 |-> IF a = f[1] THEN f[2] ELSE 0]
\* the penetration depth of p at face f (positive: p is outside)
Depth(p, f) ==
    IF f[2] = 1 THEN BoundsMin[f[1]] - p[f[1]] ELSE p[f[1]] - BoundsMax[f[1]]

\* x / b rounded away from zero: half a velocity keeps its sign
AwayDiv(a, b) == IF a >= 0 THEN -((-a) \div b) ELSE a \div b

\* The handler of update(): _positions[i] += n * d;
\* _velocities[i] -= (1 + c) * _velocities[i].dot(n) * n, with c = 0.5
HandledPosition(p, n, d) == VAdd(p, VScale(d, n))
HandledVelocity(v, n) == VSub(v, VScale(Dot(v, n) + AwayDiv(Dot(v, n), 2), n))

\* The body of the loop of computeCollisions on a particle <<position,
\* velocity>>: the six tests from test f on, each reading the position the
\* handler left.
RECURSIVE Collided(_, _)
Collided(pv, f) ==
    IF f > Len(Faces) THEN pv
    ELSE IF Depth(pv[1], Faces[f]) > 0
         THEN Collided(<< HandledPosition(pv[1], FaceNormal(Faces[f]),
                                         Depth(pv[1], Faces[f])),
                          HandledVelocity(pv[2], FaceNormal(Faces[f])) >>, f + 1)
         ELSE Collided(pv, f + 1)

CollisionBegin ==
    /\ pc = "integrate"
    /\ Joined
    /\ pc' = "collision"
    /\ colI' = 0
    /\ UNCHANGED <<solverVars, done, ftask, particleVars, gridVars, lookupVars>>

\* The loop condition i < _positions.size() - 1.  The difference is unsigned:
\* with no particle it is 2^64 - 1, and every i passes.
InScan(i) == N = 0 \/ i < N - 1

\* One iteration of the loop of computeCollisions.  Without a particle in slot
\* i the read of _positions[i] is an access outside the vector.
CollisionStep ==
    /\ pc = "collision"
    /\ InScan(colI)
    /\ IF colI \in DOMAIN positions
       THEN /\ positions' =
                  [positions EXCEPT ![colI] = Collided(<<@, velocities[colI]>>, 1)[1]]
            /\ velocities' =
                  [velocities EXCEPT ![colI] = Collided(<<positions[colI], @>>, 1)[2]]
            /\ colI' = colI + 1
            /\ pc' = pc
       ELSE /\ pc' = "crashed"
            /\ UNCHANGED <<positions, velocities, colI>>
    /\ UNCHANGED <<solverVars, done, ftask, normals, forces, densities, pressures,
                   gridVars, lookupVars>>

\* update() returns.
UpdateEnd ==
    /\ pc = "collision"
    /\ ~InScan(colI)
    /\ pc' = "idle"
    /\ UNCHANGED <<solverVars, stageVars, particleVars, gridVars, lookupVars>>

\* ------------------------------------------------- specification: solver
\* The largest time update() is entered at: a behaviour makes MaxSteps steps.
\* The scenes a solver is constructed from (fill volumes in the box):
\*   no fill volume at all;
\*   one box holding one lattice point, on the floor;
\*   two boxes that overlap in one lattice point;
\*   a box in the last cell, then a box of two lattice points in the first;
\*   two boxes in cells 2 and 1 whose particles are neighbours;
\*   a sphere holding two lattice points;
\*   a box in cell 2 above the floor, then a box of two floor points in cell 1;
\*   a box holding a row of three lattice points;
\*   a box one lattice point above the top face of the world bounds (the
\*   constructor does not clip a fill volume), then a box in the last cell.
Box(lo, hi) == <<lo, hi>>
Scenes ==
    { [boxes |-> <<>>, spheres |-> <<>>],
      [boxes |-> <<Box(<<2, 0, 0>>, <<2, 0, 0>>)>>, spheres |-> <<>>],
      [boxes |-> <<Box(<<2, 2, 0>>, <<3, 3, 1>>), Box(<<1, 1, 0>>, <<2, 2, 0>>)>>,
       spheres |-> <<>>],
      [boxes |-> <<Box(<<4, 4, 0>>, <<4, 4, 0>>), Box(<<0, 0, 0>>, <<2, 0, 0>>)>>,
       spheres |-> <<>>],
      [boxes |-> <<Box(<<2, 4, 0>>, <<2, 4, 0>>), Box(<<4, 2, 0>>, <<4, 2, 0>>)>>,
       spheres |-> <<>>],
      [boxes |-> <<>>, spheres |-> << <<<<2, 2, 1>>, 1>> >>],
      [boxes |-> <<Box(<<2, 4, 0>>, <<2, 4, 0>>), Box(<<4, 0, 0>>, <<4, 0, 2>>)>>,
       spheres |-> <<>>],
      [boxes |-> <<Box(<<0, 2, 0>>, <<4, 2, 0>>)>>, spheres |-> <<>>],
      [boxes |-> <<Box(<<2, 6, 0>>, <<2, 6, 0>>), Box(<<4, 4, 0>>, <<4, 4, 0>>)>>,
       spheres |-> <<>>] }
NoScene == [boxes |-> <<>>, spheres |-> <<>>]

\* the values the caller writes to settings().gravity, and passes as dt
CallerGravities == {Vector3(0), GravityRight}
Dts == {1}

Init ==
    /\ pc = "noSolver"
    /\ particleMass = 0
    /\ gravity = GravityDown
    /\ time = 0
    /\ dt = 0
    /\ scene = NoScene
    /\ done = {}
    /\ ftask = <<>>
    /\ colI = 0
    /\ positions = <<>>
    /\ velocities = <<>>
    /\ normals = <<>>
    /\ forces = <<>>
    /\ densities = <<>>
    /\ pressures = <<>>
    /\ atEntry = <<<<>>, <<>>, <<>>, <<>>, <<>>, <<>>, GravityDown, 0, <<>>>>
    /\ written = {}
    /\ firstRun = <<>>
    /\ atForces = <<>>
    /\ cellOffset = <<>>
    /\ indices = <<>>
    /\ cellIndex = <<>>
    /\ sortI = 0
    /\ lookupPos = Vector3(0)
    /\ lookupRadius = 0
    /\ lookupCells = <<>>
    /\ lookupVisited = <<>>
    /\ neighbours = <<>>
    /\ lastCall = "none"

Update == \E d \in Dts : UpdateBegin(d, MaxSteps)

Next ==
    \/ \E scn \in Scenes : Construct(scn)
    \/ \E g \in CallerGravities : SetGravity(g)
    \/ Update
    \/ SortSwap
    \/ SortAdvance
    \/ DensityBegin
    \/ \E i \in Tasks : DensityTask(i)
    \/ NormalsBegin
    \/ \E i \in Tasks : NormalTask(i)
    \/ ForcesBegin
    \/ \E i \in Tasks : ForceTaskBegin(i)
    \/ \E i \in Tasks : ForceTaskStep(i)
    \/ \E i \in Tasks : ForceTaskNudge(i)
    \/ \E i \in Tasks : ForceTaskEnd(i)
    \/ IntegrateBegin
    \/ \E i \in Tasks : IntegrateTask(i)
    \/ CollisionBegin
    \/ CollisionStep
    \/ UpdateEnd

Spec == Init /\ [][Next]_vars

\* --------------------------------------------- specification: the grid
\* The lattice points of the domain box: where in-domain particles are drawn.
Dom == {p \in BoxPoints(BoundsMin, BoundsMax) :
           \A a \in 1 .. 3 : p[a] % RestSpacing = 0}
\* The query points: in the box, on its faces and around it.
QueryPoints == (-1 .. 5) \X {-1, 1, 2, 5} \X {-1, 1, 3}
Radii == {0, 1, 4, 6}

\* A solver between two steps that holds 1 .. maxN particles on points of dom;
\* the particle first in slot i moves with velocity <<i + 1, 0, 0>>.
InitParticles(maxN, dom) ==
    /\ pc = "idle"
    /\ particleMass = TDiv(RestDensity, ParticlesPerUnitVolume)
    /\ gravity = GravityDown
    /\ time = 0
    /\ dt = 0
    /\ scene = NoScene
    /\ done = {}
    /\ ftask = <<>>
    /\ colI = 0
    /\ \E n \in 1 .. maxN :
        /\ positions \in [0 .. n - 1 -> dom]
        /\ velocities = [i \in 0 .. n - 1 |-> <<i + 1, 0, 0>>]
        /\ normals = Resized(n, Vector3Default)
        /\ forces = Resized(n, Vector3Default)
        /\ densities = Resized(n, 0)
        /\ pressures = Resized(n, 0)
    /\ atEntry = <<<<>>, <<>>, <<>>, <<>>, <<>>, <<>>, GravityDown, 0, <<>>>>
    /\ written = {}
    /\ firstRun = <<>>
    /\ atForces = <<>>
    /\ cellOffset = Resized(CellTotal + 1, 0)
    /\ indices = <<>>
    /\ cellIndex = <<>>
    /\ sortI = 0
    /\ lookupPos = Vector3(0)
    /\ lookupRadius = 0
    /\ lookupCells = <<>>
    /\ lookupVisited = <<>>
    /\ neighbours = <<>>
    /\ lastCall = "none"

InitGrid == InitParticles(MaxN, Dom)

\* update() is entered once and rebuilds the grid.
NextGrid == (\E d \in Dts : UpdateBegin(d, 1)) \/ SortSwap \/ SortAdvance

SpecGrid == InitGrid /\ [][NextGrid]_vars

\* ------------------------------------- specification: queries of the grid
\* The queried particles sit on two points of each of the four cells.
LookupDom == {p \in Dom : p[1] \in {0, 4} /\ p[2] \in {2, 4}}
InitLookup == InitParticles(MaxLookupN, LookupDom)

\* The caller's queries of the built grid: any point, any radius.
LookupCall ==
    /\ GridBuilt
    /\ lastCall = "none"
    /\ \E p \in QueryPoints, r \in Radii : GridLookup(p, r)

NeighbourCall ==
    /\ GridBuilt
    /\ lastCall = "none"
    /\ \E p \in QueryPoints : NeighbourQuery(p)

NextLookup == NextGrid \/ LookupCall \/ NeighbourCall

SpecLookup == InitLookup /\ [][NextLookup]_vars

\* ------------------------------------- specification: the sort loop runs
\* One lattice point in each of the four cells of the floor layer.
SortDom == {p \in LookupDom : p[3] = 0}
InitSort == InitParticles(MaxSortN, SortDom)

\* Grid::update runs on one thread, which is scheduled until the loop ends.
SpecSort == InitSort /\ [][NextGrid]_vars /\ WF_vars(SortSwap) /\ WF_vars(SortAdvance)

\* ------------------------------- specification: two runs of one update
\* iterate() built without TBB: for (i = 0; i < count; ++i) func(i).  Task i
\* starts when the tasks before it have returned.
MutAnyTurn(i) == TRUE
SequentialTurn(i) == \A k \in Tasks : k < i => k \in done

\* The state of the solver between two calls: the six arrays, the settings
\* and the time.
SolverState ==
    <<positions, velocities, normals, forces, densities, pressures, gravity, time>>

\* No update() has run yet, or the last one has run twice.
ReplaySettled ==
    IF time = 0 THEN TRUE
    ELSE IF firstRun = <<>> THEN FALSE
    ELSE firstRun[8] = time

\* The end state of the update() that has returned is recorded, and a second
\* run starts from the state that update() was entered with.
Replay ==
    /\ pc = "idle"
    /\ time > 0
    /\ IF firstRun = <<>> THEN TRUE ELSE firstRun[8] < time
    /\ firstRun' = SolverState
    /\ positions' = atEntry[1]
    /\ velocities' = atEntry[2]
    /\ normals' = atEntry[3]
    /\ forces' = atEntry[4]
    /\ densities' = atEntry[5]
    /\ pressures' = atEntry[6]
    /\ gravity' = atEntry[7]
    /\ time' = atEntry[8]
    /\ cellOffset' = atEntry[9]
    /\ UNCHANGED <<pc, particleMass, dt, scene, atEntry, written, atForces, stageVars,
                   indices, cellIndex, sortI, lookupVars>>

\* The caller writes the settings before the first of the two runs.
ReplaySetGravity == ReplaySettled /\ \E g \in CallerGravities : SetGravity(g)

\* The solver with a single-threaded scheduler, each update() run twice.
NextReplay ==
    \/ \E scn \in Scenes : Construct(scn)
    \/ ReplaySetGravity
    \/ Update
    \/ Replay
    \/ SortSwap
    \/ SortAdvance
    \/ DensityBegin
    \/ \E i \in Tasks : SequentialTurn(i) /\ DensityTask(i)
    \/ NormalsBegin
    \/ \E i \in Tasks : SequentialTurn(i) /\ NormalTask(i)
    \/ ForcesBegin
    \/ \E i \in Tasks : SequentialTurn(i) /\ ForceTaskBegin(i)
    \/ \E i \in Tasks : ForceTaskStep(i)
    \/ \E i \in Tasks : ForceTaskNudge(i)
    \/ \E i \in Tasks : ForceTaskEnd(i)
    \/ IntegrateBegin
    \/ \E i \in Tasks : SequentialTurn(i) /\ IntegrateTask(i)
    \/ CollisionBegin
    \/ CollisionStep
    \/ UpdateEnd

SpecReplay == Init /\ [][NextReplay]_vars

\* ------------------------------------------------------------- claims
NonDecreasing(off) == \A c \in 0 .. CellTotal - 1 : off[c] <= off[c + 1]
NoDuplicates(s) == \A a, b \in DOMAIN s : a # b => s[a] # s[b]

\* C1: after Grid::update returns, _cellOffset starts at 0, is non-decreasing
\* and ends at N, and every slot of the range of cell c holds a particle whose
\* position (read after all swaps) maps to linear cell index c.
C1_Partition ==
    GridBuilt =>
        /\ DOMAIN cellOffset = 0 .. CellTotal
        /\ cellOffset[0] = 0
        /\ NonDecreasing(cellOffset)
        /\ cellOffset[CellTotal] = N
        /\ \A c \in 0 .. CellTotal - 1 :
               \A k \in cellOffset[c] .. cellOffset[c + 1] - 1 :
                   k \in DOMAIN positions /\ indexLinear(positions[k]) = c

\* A built grid of three particles in three different cells whose first slot
\* received another particle by a swap.
C1_Witness ==
    /\ GridBuilt
    /\ N = 3
    /\ velocities[0] # <<1, 0, 0>>
    /\ Cardinality({indexLinear(positions[k]) : k \in DOMAIN positions}) = 3

\* C2: on a freshly built grid, lookup(p, r) passes no slot twice and passes
\* every slot whose particle is within distance r of p; the slots that
\* iterateNeighbours(p) hands to its callback are exactly those with
\* |p - x_j|^2 < h^2.
C2_NeighbourComplete ==
    /\ (lastCall # "none" /\ pc # "crashed") =>
          /\ NoDuplicates(lookupVisited)
          /\ \A j \in DOMAIN positions :
                SquaredNorm(VSub(lookupPos, positions[j])) <= sqr(lookupRadius)
                    => j \in SeqToSet(lookupVisited)
    /\ (lastCall = "iterateNeighbours" /\ pc # "crashed") =>
          /\ NoDuplicates(neighbours)
          /\ SeqToSet(neighbours) =
                {j \in DOMAIN positions :
                    SquaredNorm(VSub(lookupPos, positions[j])) < h2}

\* iterateNeighbours got two candidates from two cells and kept one of them.
C2_Witness ==
    /\ lastCall = "iterateNeighbours"
    /\ Len(lookupCells) >= 2
    /\ Len(lookupVisited) = 2
    /\ Len(neighbours) = 1
    /\ indexLinear(positions[0]) # indexLinear(positions[1])

\* The point p is inside the closed domain box.
InsideBounds(p) == \A a \in 1 .. 3 : BoundsMin[a] <= p[a] /\ p[a] <= BoundsMax[a]
\* The stages of update().
Stages == {"grid", "density", "normals", "forces", "integrate", "collision"}
\* The collision stage of the running update() has completed.
CollisionDone == (pc = "collision" /\ colI >= N - 1 /\ N > 0) \/ (pc = "idle" /\ time > 0)

\* C3: after the collision stage of every update() all N particle positions
\* are inside the closed domain box (the pass handles every slot 0 .. N-1).
C3_AllInsideAfterCollision ==
    CollisionDone => \A i \in DOMAIN positions : InsideBounds(positions[i])

\* C4: while the force pass runs, a step of the task of particle i changes
\* only _forces[i]: positions, velocities, normals, densities and pressures
\* stay as they are, and a slot of forces changes only when its own task ends.
C4_ForceTaskWritesOwnSlot ==
    [][(pc = "forces" /\ pc' = "forces") =>
          /\ positions' = positions
          /\ velocities' = velocities
          /\ normals' = normals
          /\ densities' = densities
          /\ pressures' = pressures
          /\ \A i \in DOMAIN forces :
                 forces'[i] # forces[i] => i \in DOMAIN ftask /\ i \notin DOMAIN ftask']_vars

\* The stage after each stage, and after the pause between two calls.
NextStage ==
    [ idle |-> "grid", grid |-> "density", density |-> "normals", normals |-> "forces",
      forces |-> "integrate", integrate |-> "collision", collision |-> "idle" ]
\* The parallel stages: those run by iterate().
ParallelStages == {"density", "normals", "forces", "integrate"}

\* C5: the stages of update() run in the order grid rebuild, density/pressure,
\* normals, forces, integration, collision; a stage is left only when each of
\* its per-particle tasks has returned (the grid rebuild: when the sort loop
\* has ended; the collision scan: when it has passed the slots); an array is
\* written only in its stage; and the next update() is entered only from the
\* pause that follows a completed collision stage.
C5_StageOrder ==
    [][/\ (pc \in DOMAIN NextStage /\ pc' # pc) => pc' \in {NextStage[pc], "crashed"}
       /\ (pc \in ParallelStages /\ pc' = NextStage[pc]) =>
              /\ done = DOMAIN positions
              /\ ftask = <<>>
       /\ (pc = "grid" /\ pc' = "density") => sortI = N
       /\ (pc = "collision" /\ pc' = "idle") => colI >= N - 1
       /\ (pc # "noSolver" /\ (densities' # densities \/ pressures' # pressures)) =>
              pc = "density"
       /\ (pc # "noSolver" /\ normals' # normals) => pc = "normals"
       /\ (pc # "noSolver" /\ forces' # forces) => pc = "forces"
       /\ (pc # "noSolver" /\ velocities' # velocities) =>
              pc \in {"grid", "integrate", "collision"}
       /\ (pc \in ParallelStages /\ pc' = pc /\ done' # done) =>
              \E i \in DOMAIN positions \ done : done' = done \cup {i}]_vars

\* The second update() has reached its collision scan with two or more
\* particles, all tasks of the stages before it having returned.
C5_Witness ==
    /\ pc = "collision"
    /\ time = 2
    /\ N >= 2
    /\ colI = 1
    /\ done = DOMAIN positions

\* The permutations of the slots.
SlotPermutations ==
    {pi \in [DOMAIN positions -> DOMAIN positions] :
        \A a, b \in DOMAIN positions : a # b => pi[a] # pi[b]}
\* array a is array b reordered by pi
Reordered(a, b, pi) == \A k \in DOMAIN positions : a[k] = b[pi[k]]

\* C6 as stated: in the grid rebuild every swap is applied to each of the six
\* per-particle arrays, so one reordering of the slots takes the arrays update()
\* was entered with to the arrays as they are now.
C6_AllArraysReordered ==
    pc = "grid" =>
        \E pi \in SlotPermutations :
            /\ Reordered(positions, atEntry[1], pi)
            /\ Reordered(velocities, atEntry[2], pi)
            /\ Reordered(normals, atEntry[3], pi)
            /\ Reordered(forces, atEntry[4], pi)
            /\ Reordered(densities, atEntry[5], pi)
            /\ Reordered(pressures, atEntry[6], pi)

\* C6 as amended: in the grid rebuild every swap is applied identically to
\* positions and velocities, so one reordering of the slots takes both arrays
\* from their values at the entry of update() to their values now; normals,
\* forces, densities and pressures are left as they were.
C6_PositionsVelocitiesReordered ==
    pc = "grid" =>
        /\ \E pi \in SlotPermutations :
               /\ Reordered(positions, atEntry[1], pi)
               /\ Reordered(velocities, atEntry[2], pi)
        /\ normals = atEntry[3]
        /\ forces = atEntry[4]
        /\ densities = atEntry[5]
        /\ pressures = atEntry[6]

\* The rebuild of the second update() has ended after moving a particle to a
\* slot whose old occupant had another velocity and another density.
C6_Witness ==
    /\ GridBuilt
    /\ time = 2
    /\ positions # atEntry[1]
    /\ velocities # atEntry[2]
    /\ \E i, j \in DOMAIN positions :
           /\ positions[i] = atEntry[1][j]
           /\ positions[i] # atEntry[1][i]
           /\ atEntry[2][i] # atEntry[2][j]
           /\ densities[i] # densities[j]

\* C7: once the solver is constructed, the particle count is the number of
\* voxelized particles, each of the six per-particle arrays has one entry per
\* particle, and the particle mass is the one the constructor computed.
C7_CountAndMassConserved ==
    pc # "noSolver" =>
        /\ N = Len(Voxelize(scene))
        /\ DOMAIN positions = 0 .. N - 1
        /\ DOMAIN velocities = 0 .. N - 1
        /\ DOMAIN normals = 0 .. N - 1
        /\ DOMAIN forces = 0 .. N - 1
        /\ DOMAIN densities = 0 .. N - 1
        /\ DOMAIN pressures = 0 .. N - 1
        /\ particleMass = TDiv(RestDensity, ParticlesPerUnitVolume)

\* Two calls of update() have returned on a solver of three particles, which
\* moved.
C7_Witness ==
    /\ pc = "idle"
    /\ time = 2
    /\ N = 3
    /\ positions # ToVector(Voxelize(scene))

\* C8: update() does not replace the gravity the caller wrote: the stored
\* setting changes only by the caller's write between two steps.
C8_GravityIsCallers ==
    [][(pc # "noSolver" /\ gravity' # gravity) => (pc = "idle" /\ pc' = "idle")]_vars

\* C9: no solver is produced from a scene that yields no particle: a
\* constructed solver, and every stage of update(), has N >= 1.
C9_NoEmptySolver ==
    pc \in {"idle"} \cup Stages => N >= 1

\* C10: every cell Grid::lookup visits has its coordinates in [0, size-1], so
\* the linear index i and i + 1 are indices of _cellOffset, for query points
\* inside and outside the domain and every radius.
C10_LookupInGrid ==
    /\ pc # "crashed"
    /\ lastCall # "none" =>
          \A k \in DOMAIN lookupCells :
              /\ CellInGrid(lookupCells[k])
              /\ CellLinear(lookupCells[k]) \in DOMAIN cellOffset
              /\ CellLinear(lookupCells[k]) + 1 \in DOMAIN cellOffset

\* A lookup around a point outside the domain box that visited cells.
C10_Witness ==
    /\ lastCall = "lookup"
    /\ \E a \in 1 .. 3 : lookupPos[a] < BoundsMin[a] \/ lookupPos[a] > BoundsMax[a]
    /\ lookupCells # <<>>
    /\ lookupVisited # <<>>

Separation(i, j) == VSub(positions[i], positions[j])

QueryStages == {"density", "normals", "forces"}
\* Slot k lies in the offset range of the cell its position maps to.
SlotInCellRange(k) ==
    /\ indexLinear(positions[k]) \in 0 .. CellTotal - 1
    /\ cellOffset[indexLinear(positions[k])] <= k
    /\ k < cellOffset[indexLinear(positions[k]) + 1]

\* C13: from the end of the grid rebuild to the integration stage no position
\* is modified, and in each state of the density, normal and force passes
\* every slot lies in the offset range of the cell its position maps to.
C13_IndexMatchesPositions ==
    [][(pc \in QueryStages) =>
          ((\A k \in DOMAIN positions : SlotInCellRange(k))
           /\ (pc' \in QueryStages => positions' = positions))]_vars

\* C14: two distinct particles whose positions are equal when the force pass
\* is entered have different positions when all its tasks have returned, under
\* every interleaving of the tasks; and no pair the pass evaluates kernel
\* terms for has rn = 0.
C14_CoincidentSeparated ==
    /\ pc = "forces" =>
           \A i, j \in DOMAIN positions :
               (i # j /\ ForcePair(SquaredNorm(Separation(i, j)))) =>
                   rn4(SquaredNorm(Separation(i, j))) > 0
    /\ (pc = "forces" /\ done = Tasks) =>
           \A i, j \in DOMAIN positions :
               (i # j /\ atForces[i] = atForces[j]) => positions[i] # positions[j]

\* The (position, velocity) pairs of the particles, slot by slot, and the
\* number of slots that hold a given pair.
Pairs(ps, vs) == [k \in DOMAIN ps |-> <<ps[k], vs[k]>>]
Count(f, x) == Cardinality({k \in DOMAIN f : f[k] = x})

\* C15: throughout the grid rebuild the (position, velocity) pairs are those
\* update() was entered with, each as many times: the swaps rearrange the
\* pairs and change none, so no particle has another particle's velocity.
C15_PairsPermuted ==
    pc = "grid" =>
        LET now == Pairs(positions, velocities)
            entry == Pairs(atEntry[1], atEntry[2])
        IN /\ DOMAIN now = DOMAIN entry
           /\ \A k \in DOMAIN now :
                  /\ Count(now, now[k]) = Count(entry, now[k])
                  /\ Count(now, entry[k]) = Count(entry, entry[k])

\* A rebuild of three particles has ended with every slot holding another
\* particle than the one it was entered with.
C15_Witness ==
    /\ GridBuilt
    /\ N = 3
    /\ \A k \in DOMAIN positions :
           /\ positions[k] # atEntry[1][k]
           /\ velocities[k] # atEntry[2][k]

\* array a differs from array b in slot i at most
OnlySlot(a, b, i) == DOMAIN a = DOMAIN b /\ \A k \in DOMAIN a : k # i => a[k] = b[k]

\* C16: in the density, normal and integration passes a step is the task of
\* one particle i; it writes slot i only, of densities and pressures, of
\* normals, of velocities and positions respectively, and leaves every other
\* array alone.  No task writes what another task of the pass reads: what a
\* returned task has written is what it would compute from the arrays as they
\* are now, whichever tasks have run since.
C16_StagesRaceFree ==
    /\ [](/\ pc = "density" =>
               \A k \in done : /\ densities[k] = DensityOf(k)
                                /\ pressures[k] = Tait(DensityOf(k))
          /\ pc = "normals" => \A k \in done : normals[k] = NormalOf(k))
    /\ [][/\ (pc = "density" /\ pc' = "density") =>
                 \E i \in Tasks \ done :
                     /\ done' = done \cup {i}
                     /\ OnlySlot(densities', densities, i)
                     /\ OnlySlot(pressures', pressures, i)
                     /\ UNCHANGED <<positions, velocities, normals, forces, gridVars>>
          /\ (pc = "normals" /\ pc' = "normals") =>
                 \E i \in Tasks \ done :
                     /\ done' = done \cup {i}
                     /\ OnlySlot(normals', normals, i)
                     /\ UNCHANGED <<positions, velocities, forces, densities, pressures,
                                    gridVars>>
          /\ (pc = "integrate" /\ pc' = "integrate") =>
                 \E i \in Tasks \ done :
                     /\ done' = done \cup {i}
                     /\ OnlySlot(velocities', velocities, i)
                     /\ OnlySlot(positions', positions, i)
                     /\ UNCHANGED <<normals, forces, densities, pressures, gridVars,
                                    particleMass, dt>>
         ]_vars

\* In the integration pass of three particles one task has returned, having
\* moved its particle, while the two others have not run.
C16_Witness ==
    /\ pc = "integrate"
    /\ N = 3
    /\ Cardinality(done) = 1
    /\ \E i \in done : velocities[i] # Vector3(0)
    /\ \E i, j \in DOMAIN densities : densities[i] # densities[j]
    /\ \E i \in DOMAIN normals : normals[i] # Vector3(0)

\* Every particle of the scene is voxelized inside the domain bounds.
SceneInside ==
    \A k \in DOMAIN Voxelize(scene) : InsideBounds(Voxelize(scene)[k])

\* C17: in a solver of one or more particles voxelized inside the domain
\* bounds, whenever update() is entered and rebuilds the grid, every
\* particle's cell coordinate is in [0, size - 1] on each axis and its linear
\* index is an index of cellCount.
C17_CellIndicesInRange ==
    [][(pc = "idle" /\ pc' # "idle" /\ N >= 1 /\ SceneInside) =>
          /\ \A i \in DOMAIN positions : CellInGrid(index(positions[i]))
          /\ IndicesInRange(positions)
          /\ pc' = "grid"]_vars

\* C18: a step of the collision scan that pushes the particle of slot colI
\* back to a face leaves it a velocity whose component along the inward
\* normal of that face is not negative.
C18_NoOutwardVelocity ==
    [][(pc = "collision" /\ colI' = colI + 1) =>
          \A f \in DOMAIN Faces :
              Depth(positions[colI], Faces[f]) > 0 =>
                  /\ Depth(positions'[colI], Faces[f]) = 0
                  /\ Dot(velocities'[colI], FaceNormal(Faces[f])) >= 0]_vars

\* Slot j of each of the named arrays has been written since update() was
\* entered (the grid rebuild writes none of them).
Fresh(arrays, j) == \A a \in arrays : <<a, j>> \in written

\* C19: every density, pressure, normal and force a step of update() reads
\* was written for its slot earlier in the same call: the normal task of
\* particle i reads the densities of its neighbours, a step of the force task
\* of particle i on candidate j reads the densities, pressures and normals of
\* slots i and j, and the integration task of particle i reads the force of
\* slot i.
C19_NoStaleRead ==
    [][/\ (pc = "normals" /\ pc' = "normals") =>
              \A i \in done' \ done :
                  LET nb == IterateNeighbours(positions[i])
                  IN \A k \in 1 .. Len(nb) : Fresh({"densities"}, nb[k])
       /\ (pc = "forces" /\ pc' = "forces") =>
              \A i \in DOMAIN ftask \cap DOMAIN ftask' :
                  ftask'[i].k = ftask[i].k + 1 =>
                      LET j == ftask[i].cands[ftask[i].k]
                      IN /\ Fresh({"densities", "pressures", "normals"}, i)
                         /\ Fresh({"densities", "pressures", "normals"}, j)
       /\ (pc = "integrate" /\ pc' = "integrate") =>
              \A i \in done' \ done : Fresh({"forces"}, i)
      ]_vars

\* In the second update() the normal task of a particle has returned after
\* reading the density of a neighbour whose slot held another density when
\* update() was entered.
C19_Witness ==
    /\ pc = "normals"
    /\ time = 2
    /\ \E i \in done :
           LET nb == IterateNeighbours(positions[i])
           IN \E k \in 1 .. Len(nb) :
                  /\ nb[k] # i
                  /\ densities[nb[k]] # atEntry[5][nb[k]]

\* The iterations the inner while loop has made, each one swap callback: the
\* distance of the cursors from the starts of their ranges.
SwapsIssued ==
    LET sum[c \in 0 .. CellTotal] ==
            IF c = 0 THEN 0 ELSE sum[c - 1] + (cellIndex[c - 1] - cellOffset[c - 1])
    IN sum[CellTotal]

\* C20: the sort loop of Grid::update ends; each iteration of its inner while
\* loop advances the cursor of one cell by one and leaves the others; no
\* cursor passes the end of the range of its cell; and N swap callbacks are
\* issued at most.
C20_SortTerminates ==
    /\ [](pc = "grid" =>
             /\ \A c \in 0 .. CellTotal - 1 : cellIndex[c] <= cellOffset[c + 1]
             /\ SwapsIssued <= N)
    /\ [][(pc = "grid" /\ pc' = "grid" /\ sortI' = sortI) =>
             /\ \E c \in 0 .. CellTotal - 1 :
                    /\ cellIndex'[c] = cellIndex[c] + 1
                    /\ \A b \in 0 .. CellTotal - 1 : b # c => cellIndex'[b] = cellIndex[b]
             /\ cellOffset' = cellOffset]_vars
    /\ (pc = "grid") ~> GridBuilt

\* The loop has ended on four particles, two or more of them in one cell,
\* after one swap callback for each and with a slot holding another particle
\* than before.
C20_Witness ==
    /\ GridBuilt
    /\ N = 4
    /\ SwapsIssued = N
    /\ \E c \in 0 .. CellTotal - 1 : cellOffset[c + 1] - cellOffset[c] >= 2
    /\ positions # atEntry[1]

====
